---- MODULE Spec2Model ----
(***************************************************************************)
(* Model of terraform-provider-passbolt: the provider bootstrap            *)
(* (PassboltProvider.Configure), the folder resource, the password         *)
(* resource and the passwords data source, as state machines over the      *)
(* remote Passbolt collections and the tracked Terraform state.            *)
(*                                                                         *)
(* Every handler is one action.  A handler is computed by threading an     *)
(* execution context (the remote collections, the log of remote calls it   *)
(* issued and the diagnostics it reported) through the same sequence of    *)
(* conditions, early returns and remote calls as the Go code.              *)
(***************************************************************************)
EXTENDS Integers, Sequences, FiniteSets, TLC

VARIABLES
    provider,       \* PassboltProvider: what Configure was given and what it answered
    folders,        \* remote folder collection, in listing order
    resources,      \* remote secret-entry collection, in listing order
    groups,         \* remote group collection, in listing order
    nextID,         \* next id the server assigns
    folderState,    \* tracked state of the folder resource: <<>> or <<FolderResourceModel>>
    passwordState,  \* tracked state of the password resource: <<>> or <<PasswordResourceModel>>
    managed,        \* the resource instance the host invokes the handlers for
    envSteps,       \* number of out-of-band changes made to the remote so far
    last            \* the last operation: its inputs, remote calls and diagnostics

vars == <<provider, folders, resources, groups, nextID, managed, folderState,
          passwordState, envSteps, last>>

resourceVars == <<folders, resources, groups, nextID, managed, folderState,
                  passwordState, envSteps, last>>

-----------------------------------------------------------------------------
(* Bounds of the model *)

\* ids the server may assign are "1" .. ToString(MaxID)
MaxID == 3

\* number of out-of-band changes to the remote collections
MaxEnvSteps == 1

-----------------------------------------------------------------------------
(* types.String of terraform-plugin-framework: null, unknown or a value *)

StringNull == [st |-> "null", v |-> ""]

StringUnknown == [st |-> "unknown", v |-> ""]

StringValue(s) == [st |-> "known", v |-> s]

IsNull(t) == t.st = "null"

IsUnknown(t) == t.st = "unknown"

\* ValueString returns "" for a null or unknown value
ValueString(t) == IF t.st = "known" THEN t.v ELSE ""

\* diag.Diagnostics entries of severity error
AttributeError(p, summary) == [path |-> p, summary |-> summary, detail |-> ""]

Error(summary, detail) == [path |-> "", summary |-> summary, detail |-> detail]

-----------------------------------------------------------------------------
(* PassboltProvider.Configure *)

NoClient == "nil"

Client == "client"

ConfigFields == {"base_url", "private_key", "passphrase"}

\* the environment variable behind each field
EnvName(f) ==
    CASE f = "base_url" -> "PASSBOLT_BASE_URL"
      [] f = "private_key" -> "PASSBOLT_PRIVATE_KEY"
      [] f = "passphrase" -> "PASSBOLT_PASSPHRASE"

FieldTitle(f) ==
    CASE f = "base_url" -> "Passbolt Base URL"
      [] f = "private_key" -> "Passbolt Private Key"
      [] f = "passphrase" -> "Passbolt Passphrase"

\* the three fields in the order the code examines them
ConfigOrder == <<"base_url", "private_key", "passphrase">>

\* the diagnostics of one validation pass: one attribute error per field of
\* ConfigOrder that satisfies bad, in order
RECURSIVE FieldErrors(_, _, _)
FieldErrors(i, bad, kind) ==
    IF i > Len(ConfigOrder) THEN <<>>
    ELSE (IF ConfigOrder[i] \in bad
          THEN <<AttributeError(ConfigOrder[i], kind \o " " \o FieldTitle(ConfigOrder[i]))>>
          ELSE <<>>) \o FieldErrors(i + 1, bad, kind)

\* Effective without the environment-variable default
EffectiveWithoutEnv(config, env, f) == ValueString(config[f])

\* os.Getenv default, overridden by the configuration value when it is not null
Effective(config, env, f) ==
    IF ~IsNull(config[f]) THEN ValueString(config[f]) ELSE env[EnvName(f)]

\* fault = 1: api.NewClient fails; fault = 2: client.Login fails; 0: neither
Configure(config, env, fault) ==
    LET unknown == {f \in ConfigFields : IsUnknown(config[f])}
        missing == {f \in ConfigFields : Effective(config, env, f) = ""}
        base == [phase |-> "configured", config |-> config, env |-> env,
                 calls |-> <<>>, diags |-> <<>>,
                 DataSourceData |-> NoClient, ResourceData |-> NoClient]
    IN  IF unknown # {}
        THEN [base EXCEPT !.diags = FieldErrors(1, unknown, "Unknown")]
        ELSE IF missing # {}
        THEN [base EXCEPT !.diags = FieldErrors(1, missing, "Missing")]
        ELSE IF fault = 1
        THEN [base EXCEPT !.calls = <<[fn |-> "NewClient", err |-> "error"]>>,
                          !.diags = <<Error("Unable to create Passbolt API client", "error")>>]
        ELSE IF fault = 2
        THEN [base EXCEPT !.calls = <<[fn |-> "NewClient", err |-> ""],
                                      [fn |-> "Login", err |-> "error"]>>,
                          !.diags = <<Error("Unable to login to Passbolt", "error")>>]
        ELSE [base EXCEPT !.calls = <<[fn |-> "NewClient", err |-> ""],
                                      [fn |-> "Login", err |-> ""]>>,
                          !.DataSourceData = Client,
                          !.ResourceData = Client]

\* configuration values and environment values the model draws from
ConfigValues == {StringNull, StringUnknown, StringValue(""), StringValue("x")}

EnvValues == {"", "e"}

Configs == [ConfigFields -> ConfigValues]

Environments == [{EnvName(f) : f \in ConfigFields} -> EnvValues]

ProviderNew ==
    [phase |-> "new", config |-> [f \in ConfigFields |-> StringNull],
     env |-> [n \in {EnvName(f) : f \in ConfigFields} |-> ""],
     calls |-> <<>>, diags |-> <<>>,
     DataSourceData |-> NoClient, ResourceData |-> NoClient]

\* the provider after a Configure that succeeded
ProviderReady ==
    Configure([f \in ConfigFields |-> StringValue("x")],
              [n \in {EnvName(f) : f \in ConfigFields} |-> ""], 0)

ConfigureOp ==
    /\ provider.phase = "new"
    /\ \E config \in Configs, env \in Environments, fault \in 0..2 :
          provider' = Configure(config, env, fault)
    /\ UNCHANGED resourceVars

-----------------------------------------------------------------------------
(* The remote API as the handlers use it (github.com/passbolt/go-passbolt). *)
(* A context carries the remote collections through one handler, with the   *)
(* log of the calls issued and the diagnostics reported so far.  The        *)
(* fault-th call of the handler fails in transport (0: none does).          *)

NewCtx(fault) ==
    [calls |-> <<>>, diags |-> <<>>, folders |-> folders,
     resources |-> resources, nextID |-> nextID, fault |-> fault]

Faulted(ctx) == Len(ctx.calls) + 1 = ctx.fault

Logged(ctx, fn, args, err, ret) ==
    [ctx EXCEPT !.calls = Append(@, [fn |-> fn, args |-> args, err |-> err, ret |-> ret])]

LastCall(ctx) == ctx.calls[Len(ctx.calls)]

\* the err of the call just made: "" is nil
Err(ctx) == LastCall(ctx).err

\* what the call just made returned, as a sequence of objects
Ret(ctx) == LastCall(ctx).ret

\* resp.Diagnostics.AddError
AddError(ctx, summary, detail) ==
    [ctx EXCEPT !.diags = Append(@, Error(summary, detail))]

NoArgs == [none |-> TRUE]

\* position of the first object of list with the given id, 0 when there is none
IndexByID(list, id) ==
    IF \E i \in 1..Len(list) : list[i].ID = id
    THEN CHOOSE i \in 1..Len(list) :
            /\ list[i].ID = id
            /\ \A j \in 1..(i - 1) : list[j].ID # id
    ELSE 0

RemoveAt(list, i) == SubSeq(list, 1, i - 1) \o SubSeq(list, i + 1, Len(list))

GetFolders(ctx) ==
    IF Faulted(ctx) THEN Logged(ctx, "GetFolders", NoArgs, "error", <<>>)
    ELSE Logged(ctx, "GetFolders", NoArgs, "", ctx.folders)

GetFolder(ctx, id) ==
    IF Faulted(ctx) THEN Logged(ctx, "GetFolder", [id |-> id], "error", <<>>)
    ELSE IF IndexByID(ctx.folders, id) = 0
    THEN Logged(ctx, "GetFolder", [id |-> id], "notfound", <<>>)
    ELSE Logged(ctx, "GetFolder", [id |-> id], "", <<ctx.folders[IndexByID(ctx.folders, id)]>>)

\* CreateFolder wrapped in a retry: a failed call is issued once more
CreateFolderRetried(ctx, folder) ==
    LET once(c) ==
            IF Faulted(c) THEN Logged(c, "CreateFolder", folder, "error", <<>>)
            ELSE LET created == [ID |-> ToString(c.nextID), Name |-> folder.Name,
                                 FolderParentID |-> folder.FolderParentID,
                                 Personal |-> FALSE]
                 IN  [Logged(c, "CreateFolder", folder, "", <<created>>)
                        EXCEPT !.folders = Append(@, created), !.nextID = @ + 1]
    IN  IF Err(once(ctx)) # "" THEN once(once(ctx)) ELSE once(ctx)

CreateFolder(ctx, folder) ==
    IF Faulted(ctx) THEN Logged(ctx, "CreateFolder", folder, "error", <<>>)
    ELSE LET created == [ID |-> ToString(ctx.nextID), Name |-> folder.Name,
                         FolderParentID |-> folder.FolderParentID, Personal |-> FALSE]
         IN  [Logged(ctx, "CreateFolder", folder, "", <<created>>)
                EXCEPT !.folders = Append(@, created), !.nextID = @ + 1]

DeleteFolder(ctx, id) ==
    IF Faulted(ctx) THEN Logged(ctx, "DeleteFolder", [id |-> id], "error", <<>>)
    ELSE IF IndexByID(ctx.folders, id) = 0
    THEN Logged(ctx, "DeleteFolder", [id |-> id], "notfound", <<>>)
    ELSE [Logged(ctx, "DeleteFolder", [id |-> id], "", <<>>)
            EXCEPT !.folders = RemoveAt(@, IndexByID(ctx.folders, id))]

\* the lookup loop without its break: the last folder with the name wins
FolderIDLastMatch(list, name) ==
    IF \E i \in 1..Len(list) : list[i].Name = name
    THEN list[CHOOSE i \in 1..Len(list) :
                 /\ list[i].Name = name
                 /\ \A j \in (i + 1)..Len(list) : list[j].Name # name].ID
    ELSE ""

\* the lookup loop without its name comparison: the first folder listed
FolderIDFirstListed(list, name) == IF Len(list) > 0 THEN list[1].ID ELSE ""

\* the parent-folder lookup loop: the id of the first folder of the listing
\* whose name is the target, "" when no folder has it
FolderIDByName(list, name) ==
    IF \E i \in 1..Len(list) : list[i].Name = name
    THEN list[CHOOSE i \in 1..Len(list) :
                 /\ list[i].Name = name
                 /\ \A j \in 1..(i - 1) : list[j].Name # name].ID
    ELSE ""

-----------------------------------------------------------------------------
(* FolderResource *)

\* what a handler hands back: the context it ended in and resp.State
Done(ctx, state) == [ctx |-> ctx, state |-> state]

\* resp.State of Create starts empty, and stays so on an early return
FolderCreate(plan, ctx0) ==
    IF ValueString(plan.Name) = ""
    THEN Done(AddError(ctx0, "Validation Error", "Name cannot be empty"), <<>>)
    ELSE
    LET lookup == ~IsNull(plan.FolderParent) /\ ~IsUnknown(plan.FolderParent)
        c1 == IF lookup THEN GetFolders(ctx0) ELSE ctx0
    IN
    IF lookup /\ Err(c1) # ""
    THEN Done(AddError(c1, "Cannot get folders", Err(c1)), <<>>)
    ELSE
    LET parentFolderID ==
            IF lookup THEN FolderIDByName(Ret(c1), ValueString(plan.FolderParent)) ELSE ""
    IN
    IF lookup /\ parentFolderID = ""
    THEN Done(AddError(c1, "Validation Error", "Parent folder not found"), <<>>)
    ELSE
    LET c2 == CreateFolder(c1, [FolderParentID |-> parentFolderID,
                                Name |-> ValueString(plan.Name)])
    IN
    IF Err(c2) # ""
    THEN Done(AddError(c2, "Error creating folder", Err(c2)), <<>>)
    ELSE Done(c2, <<[ID |-> StringValue(Ret(c2)[1].ID),
                     Name |-> plan.Name,
                     Personal |-> Ret(c2)[1].Personal,
                     FolderParent |-> plan.FolderParent]>>)

\* resp.State of Read starts as the prior state
FolderRead(state, ctx0) ==
    LET c1 == GetFolder(ctx0, ValueString(state.ID)) IN
    IF Err(c1) # ""
    THEN Done(AddError(c1, "Error reading folder", Err(c1)), <<state>>)
    ELSE
    LET folder == Ret(c1)[1]
        s1 == [state EXCEPT !.Name = StringValue(folder.Name),
                            !.Personal = folder.Personal]
    IN
    IF folder.FolderParentID # ""
    THEN LET c2 == GetFolder(c1, folder.FolderParentID) IN
         IF Err(c2) = ""
         THEN Done(c2, <<[s1 EXCEPT !.FolderParent = StringValue(Ret(c2)[1].Name)]>>)
         ELSE Done(c2, <<s1>>)
    ELSE Done(c1, <<[s1 EXCEPT !.FolderParent = StringNull]>>)

\* needsRecreation: the name against the live folder, the parent-folder name
\* against the recorded state
FolderNeedsRecreation(plan, state, currentFolder) ==
    \/ ValueString(plan.Name) # currentFolder.Name
    \/ ValueString(plan.FolderParent) # ValueString(state.FolderParent)

\* resp.State of Update starts as the prior state
FolderUpdate(plan, state, ctx0) ==
    LET c1 == GetFolder(ctx0, ValueString(state.ID)) IN
    IF Err(c1) # ""
    THEN Done(AddError(c1, "Error reading current folder", Err(c1)), <<state>>)
    ELSE
    IF ~FolderNeedsRecreation(plan, state, Ret(c1)[1])
    THEN Done(c1, <<[state EXCEPT !.Name = plan.Name,
                                  !.FolderParent = plan.FolderParent]>>)
    ELSE
    LET c2 == DeleteFolder(c1, ValueString(state.ID)) IN
    IF Err(c2) # ""
    THEN Done(AddError(c2, "Error deleting old folder", Err(c2)), <<state>>)
    ELSE
    LET lookup == ~IsNull(plan.FolderParent) /\ ~IsUnknown(plan.FolderParent)
        c3 == IF lookup THEN GetFolders(c2) ELSE c2
    IN
    IF lookup /\ Err(c3) # ""
    THEN Done(AddError(c3, "Cannot get folders", Err(c3)), <<state>>)
    ELSE
    LET parentFolderID ==
            IF lookup THEN FolderIDByName(Ret(c3), ValueString(plan.FolderParent)) ELSE ""
        c4 == CreateFolder(c3, [FolderParentID |-> parentFolderID,
                                Name |-> ValueString(plan.Name)])
    IN
    IF Err(c4) # ""
    THEN Done(AddError(c4, "Cannot recreate folder", Err(c4)), <<state>>)
    ELSE Done(c4, <<[ID |-> StringValue(Ret(c4)[1].ID),
                     Name |-> plan.Name,
                     Personal |-> Ret(c4)[1].Personal,
                     FolderParent |-> plan.FolderParent]>>)

\* on a Delete without error diagnostics the framework removes the state
FolderDelete(state, ctx0) ==
    LET c1 == DeleteFolder(ctx0, ValueString(state.ID)) IN
    IF Err(c1) # ""
    THEN Done(AddError(c1, "Error deleting folder", Err(c1)), <<state>>)
    ELSE Done(c1, <<>>)

-----------------------------------------------------------------------------
(* Remote calls on secret entries and groups *)

GetResources(ctx) ==
    IF Faulted(ctx) THEN Logged(ctx, "GetResources", NoArgs, "error", <<>>)
    ELSE Logged(ctx, "GetResources", NoArgs, "", ctx.resources)

GetResource(ctx, id) ==
    IF Faulted(ctx) THEN Logged(ctx, "GetResource", [id |-> id], "error", <<>>)
    ELSE IF IndexByID(ctx.resources, id) = 0
    THEN Logged(ctx, "GetResource", [id |-> id], "notfound", <<>>)
    ELSE Logged(ctx, "GetResource", [id |-> id], "",
                <<ctx.resources[IndexByID(ctx.resources, id)]>>)

\* helper.CreateResource: the new entry's id
CreateResource(ctx, folderParentID, name, username, uri, password, description) ==
    LET args == [folderParentID |-> folderParentID, name |-> name, username |-> username,
                 uri |-> uri, password |-> password, description |-> description]
    IN
    IF Faulted(ctx) THEN Logged(ctx, "CreateResource", args, "error", <<>>)
    ELSE LET created == [ID |-> ToString(ctx.nextID), Name |-> name,
                         Description |-> description, Username |-> username,
                         URI |-> uri, FolderParentID |-> folderParentID,
                         Secret |-> password, Shares |-> {}]
         IN  [Logged(ctx, "CreateResource", args, "", <<created>>)
                EXCEPT !.resources = Append(@, created), !.nextID = @ + 1]

DeleteResource(ctx, id) ==
    IF Faulted(ctx) THEN Logged(ctx, "DeleteResource", [id |-> id], "error", <<>>)
    ELSE IF IndexByID(ctx.resources, id) = 0
    THEN Logged(ctx, "DeleteResource", [id |-> id], "notfound", <<>>)
    ELSE [Logged(ctx, "DeleteResource", [id |-> id], "", <<>>)
            EXCEPT !.resources = RemoveAt(@, IndexByID(ctx.resources, id))]

GetGroups(ctx) ==
    IF Faulted(ctx) THEN Logged(ctx, "GetGroups", NoArgs, "error", <<>>)
    ELSE Logged(ctx, "GetGroups", NoArgs, "", groups)

\* helper.ShareResource: adds the grants to the entry's permissions
ShareResource(ctx, resourceID, shares) ==
    LET args == [resourceID |-> resourceID, shares |-> shares] IN
    IF Faulted(ctx) THEN Logged(ctx, "ShareResource", args, "error", <<>>)
    ELSE IF IndexByID(ctx.resources, resourceID) = 0
    THEN Logged(ctx, "ShareResource", args, "notfound", <<>>)
    ELSE [Logged(ctx, "ShareResource", args, "", <<>>)
            EXCEPT !.resources[IndexByID(ctx.resources, resourceID)].Shares =
                       @ \cup {shares[i] : i \in 1..Len(shares)}]

\* the group lookup loop: the id of the first group with the name, "" when none
GroupIDByName(list, name) ==
    IF \E i \in 1..Len(list) : list[i].Name = name
    THEN list[CHOOSE i \in 1..Len(list) :
                 /\ list[i].Name = name
                 /\ \A j \in 1..(i - 1) : list[j].Name # name].ID
    ELSE ""

\* the folder lookup loop of Read: the name of the first folder with the id
FolderNameByID(list, id) ==
    IF IndexByID(list, id) = 0 THEN <<>> ELSE <<list[IndexByID(list, id)].Name>>

\* permission type of a read grant
ReadPermission == 7

-----------------------------------------------------------------------------
(* PasswordResource *)

HasPrefix(s, p) == Len(s) >= Len(p) /\ SubSeq(s, 1, Len(p)) = p

\* MatchString for the pattern `^https?.*`, which lacks the "://"
MatchStringSchemeOnly(uri) == HasPrefix(uri, "http")

\* regexp.MustCompile(`^https?://.*`).MatchString
MatchString(uri) == HasPrefix(uri, "http://") \/ HasPrefix(uri, "https://")

\* whether err is the remote's not-found answer
isResourceNotFoundError(err) == err = "notfound"

\* the share step with an unresolved group name treated as an error, as
\* an unresolved folder name is
ShareWithGroupStrict(plan, resourceID, ctx0) ==
    IF IsNull(plan.ShareGroup) \/ IsUnknown(plan.ShareGroup)
    THEN [ctx |-> ctx0, failed |-> FALSE]
    ELSE
    LET c1 == GetGroups(ctx0) IN
    IF Err(c1) # ""
    THEN [ctx |-> AddError(c1, "Cannot get groups", Err(c1)), failed |-> TRUE]
    ELSE
    LET groupID == GroupIDByName(Ret(c1), ValueString(plan.ShareGroup)) IN
    IF groupID = ""
    THEN [ctx |-> AddError(c1, "Validation Error", "Group not found"), failed |-> TRUE]
    ELSE
    LET c2 == ShareResource(c1, resourceID,
                  <<[Type |-> ReadPermission, ARO |-> "Group", AROID |-> groupID]>>)
    IN
    IF Err(c2) # ""
    THEN [ctx |-> AddError(c2, "Cannot share resource", Err(c2)), failed |-> TRUE]
    ELSE [ctx |-> c2, failed |-> FALSE]

\* the share step of Create and of Update's recreation; resourceID is the new
\* entry's id.  Yields the context after it and whether it returned early.
ShareWithGroup(plan, resourceID, ctx0) ==
    IF IsNull(plan.ShareGroup) \/ IsUnknown(plan.ShareGroup)
    THEN [ctx |-> ctx0, failed |-> FALSE]
    ELSE
    LET c1 == GetGroups(ctx0) IN
    IF Err(c1) # ""
    THEN [ctx |-> AddError(c1, "Cannot get groups", Err(c1)), failed |-> TRUE]
    ELSE
    LET groupID == GroupIDByName(Ret(c1), ValueString(plan.ShareGroup)) IN
    IF groupID = ""
    THEN [ctx |-> c1, failed |-> FALSE]
    ELSE
    LET c2 == ShareResource(c1, resourceID,
                  <<[Type |-> ReadPermission, ARO |-> "Group", AROID |-> groupID]>>)
    IN
    IF Err(c2) # ""
    THEN [ctx |-> AddError(c2, "Cannot share resource", Err(c2)), failed |-> TRUE]
    ELSE [ctx |-> c2, failed |-> FALSE]

PasswordCreate(plan, ctx0) ==
    IF ValueString(plan.Name) = ""
    THEN Done(AddError(ctx0, "Validation Error", "Name cannot be empty"), <<>>)
    ELSE IF ValueString(plan.Username) = ""
    THEN Done(AddError(ctx0, "Validation Error", "Username cannot be empty"), <<>>)
    ELSE IF ValueString(plan.URI) = ""
    THEN Done(AddError(ctx0, "Validation Error", "URI cannot be empty"), <<>>)
    ELSE IF ValueString(plan.Password) = ""
    THEN Done(AddError(ctx0, "Validation Error", "Password cannot be empty"), <<>>)
    ELSE IF ~MatchString(ValueString(plan.URI))
    THEN Done(AddError(ctx0, "Validation Error", "URI must be a valid HTTP or HTTPS URL"), <<>>)
    ELSE
    LET lookup == ~IsNull(plan.FolderParent) /\ ~IsUnknown(plan.FolderParent)
        c1 == IF lookup THEN GetFolders(ctx0) ELSE ctx0
    IN
    IF lookup /\ Err(c1) # ""
    THEN Done(AddError(c1, "Cannot get folders", Err(c1)), <<>>)
    ELSE
    LET folderID ==
            IF lookup THEN FolderIDByName(Ret(c1), ValueString(plan.FolderParent)) ELSE ""
    IN
    IF lookup /\ folderID = ""
    THEN Done(AddError(c1, "Validation Error", "Folder not found"), <<>>)
    ELSE
    LET c2 == CreateResource(c1, folderID, ValueString(plan.Name),
                             ValueString(plan.Username), ValueString(plan.URI),
                             ValueString(plan.Password), ValueString(plan.Description))
    IN
    IF Err(c2) # ""
    THEN Done(AddError(c2, "Cannot create resource", Err(c2)), <<>>)
    ELSE
    LET resourceID == Ret(c2)[1].ID
        sh == ShareWithGroup(plan, resourceID, c2)
    IN
    IF sh.failed
    THEN Done(sh.ctx, <<>>)
    ELSE Done(sh.ctx, <<[plan EXCEPT !.ID = StringValue(resourceID)]>>)

\* Read that also takes the password from the live entry's secret
PasswordRefreshWithSecret(state, resource) ==
    [state EXCEPT !.Name = StringValue(resource.Name),
                  !.Description = StringValue(resource.Description),
                  !.Username = StringValue(resource.Username),
                  !.URI = StringValue(resource.URI),
                  !.Password = StringValue(resource.Secret)]

\* the fields Read takes from the live entry; the password is kept from the state
PasswordRefresh(state, resource) ==
    [state EXCEPT !.Name = StringValue(resource.Name),
                  !.Description = StringValue(resource.Description),
                  !.Username = StringValue(resource.Username),
                  !.URI = StringValue(resource.URI)]

\* Read without the not-found branch: every failure of the get is an error
PasswordReadNotFoundIsError(state, ctx0) ==
    LET c1 == GetResource(ctx0, ValueString(state.ID)) IN
    IF Err(c1) # ""
    THEN Done(AddError(c1, "Error reading password", Err(c1)), <<state>>)
    ELSE
    LET resource == Ret(c1)[1]
        s1 == PasswordRefresh(state, resource)
    IN
    IF resource.FolderParentID # ""
    THEN LET c2 == GetFolders(c1) IN
         IF Err(c2) = "" /\ FolderNameByID(Ret(c2), resource.FolderParentID) # <<>>
         THEN Done(c2, <<[s1 EXCEPT !.FolderParent =
                             StringValue(FolderNameByID(Ret(c2), resource.FolderParentID)[1])]>>)
         ELSE Done(c2, <<s1>>)
    ELSE Done(c1, <<s1>>)

PasswordRead(state, ctx0) ==
    LET c1 == GetResource(ctx0, ValueString(state.ID)) IN
    IF Err(c1) # ""
    THEN IF isResourceNotFoundError(Err(c1))
         THEN Done(c1, <<>>)
         ELSE Done(AddError(c1, "Error reading password", Err(c1)), <<state>>)
    ELSE
    LET resource == Ret(c1)[1]
        s1 == PasswordRefresh(state, resource)
    IN
    IF resource.FolderParentID # ""
    THEN LET c2 == GetFolders(c1) IN
         IF Err(c2) = "" /\ FolderNameByID(Ret(c2), resource.FolderParentID) # <<>>
         THEN Done(c2, <<[s1 EXCEPT !.FolderParent =
                             StringValue(FolderNameByID(Ret(c2), resource.FolderParentID)[1])]>>)
         ELSE Done(c2, <<s1>>)
    ELSE Done(c1, <<s1>>)

\* needsRecreation that also compares the share-group name with the state
PasswordNeedsRecreationWithShareGroup(plan, state, currentResource) ==
    \/ ValueString(plan.Name) # currentResource.Name
    \/ ValueString(plan.Description) # currentResource.Description
    \/ ValueString(plan.Username) # currentResource.Username
    \/ ValueString(plan.URI) # currentResource.URI
    \/ ValueString(plan.Password) # ValueString(state.Password)
    \/ ValueString(plan.FolderParent) # ValueString(state.FolderParent)
    \/ ValueString(plan.ShareGroup) # ValueString(state.ShareGroup)

\* needsRecreation without the comparison of the uri
PasswordNeedsRecreationNoURI(plan, state, currentResource) ==
    \/ ValueString(plan.Name) # currentResource.Name
    \/ ValueString(plan.Description) # currentResource.Description
    \/ ValueString(plan.Username) # currentResource.Username
    \/ ValueString(plan.Password) # ValueString(state.Password)
    \/ ValueString(plan.FolderParent) # ValueString(state.FolderParent)

\* needsRecreation: name, description, username and uri against the live
\* entry, password and parent-folder name against the recorded state
PasswordNeedsRecreation(plan, state, currentResource) ==
    \/ ValueString(plan.Name) # currentResource.Name
    \/ ValueString(plan.Description) # currentResource.Description
    \/ ValueString(plan.Username) # currentResource.Username
    \/ ValueString(plan.URI) # currentResource.URI
    \/ ValueString(plan.Password) # ValueString(state.Password)
    \/ ValueString(plan.FolderParent) # ValueString(state.FolderParent)

PasswordUpdate(plan, state, ctx0) ==
    LET c1 == GetResource(ctx0, ValueString(state.ID)) IN
    IF Err(c1) # ""
    THEN Done(AddError(c1, "Error reading current resource", Err(c1)), <<state>>)
    ELSE
    LET updated == [state EXCEPT !.Name = plan.Name,
                                 !.Description = plan.Description,
                                 !.Username = plan.Username,
                                 !.URI = plan.URI,
                                 !.Password = plan.Password,
                                 !.FolderParent = plan.FolderParent,
                                 !.ShareGroup = plan.ShareGroup]
    IN
    IF ~PasswordNeedsRecreation(plan, state, Ret(c1)[1])
    THEN Done(c1, <<updated>>)
    ELSE
    LET c2 == DeleteResource(c1, ValueString(state.ID)) IN
    IF Err(c2) # ""
    THEN Done(AddError(c2, "Error deleting old resource", Err(c2)), <<state>>)
    ELSE
    LET lookup == ~IsNull(plan.FolderParent) /\ ~IsUnknown(plan.FolderParent)
        c3 == IF lookup THEN GetFolders(c2) ELSE c2
    IN
    IF lookup /\ Err(c3) # ""
    THEN Done(AddError(c3, "Cannot get folders", Err(c3)), <<state>>)
    ELSE
    LET folderID ==
            IF lookup THEN FolderIDByName(Ret(c3), ValueString(plan.FolderParent)) ELSE ""
        c4 == CreateResource(c3, folderID, ValueString(plan.Name),
                             ValueString(plan.Username), ValueString(plan.URI),
                             ValueString(plan.Password), ValueString(plan.Description))
    IN
    IF Err(c4) # ""
    THEN Done(AddError(c4, "Cannot recreate resource", Err(c4)), <<state>>)
    ELSE
    LET resourceID == Ret(c4)[1].ID
        sh == ShareWithGroup(plan, resourceID, c4)
    IN
    IF sh.failed
    THEN Done(sh.ctx, <<state>>)
    ELSE Done(sh.ctx, <<[updated EXCEPT !.ID = StringValue(resourceID)]>>)

PasswordDelete(state, ctx0) ==
    LET c1 == DeleteResource(ctx0, ValueString(state.ID)) IN
    IF Err(c1) # ""
    THEN Done(AddError(c1, "Error deleting password", Err(c1)), <<state>>)
    ELSE Done(c1, <<>>)

-----------------------------------------------------------------------------
(* PasswordsDataSource *)

\* one PasswordModel per remote entry; folder_parent stays null unless the
\* entry's parent id is a key of folderMap
\* the element with an empty folder_parent, instead of an unset one, when the
\* parent is not resolved
PasswordModelOfEmptyParent(resource, folderList) ==
    [ID |-> StringValue(resource.ID),
     Name |-> StringValue(resource.Name),
     Description |-> StringValue(resource.Description),
     Username |-> StringValue(resource.Username),
     URI |-> StringValue(resource.URI),
     FolderParent |->
        IF FolderNameByID(folderList, resource.FolderParentID) # <<>>
        THEN StringValue(FolderNameByID(folderList, resource.FolderParentID)[1])
        ELSE StringValue("")]

\* one element of the listing output
PasswordModelOf(resource, folderList) ==
    [ID |-> StringValue(resource.ID),
     Name |-> StringValue(resource.Name),
     Description |-> StringValue(resource.Description),
     Username |-> StringValue(resource.Username),
     URI |-> StringValue(resource.URI),
     FolderParent |->
        IF resource.FolderParentID # ""
           /\ \E i \in 1..Len(folderList) : folderList[i].ID = resource.FolderParentID
        THEN \* folderMap[folder.ID] = folder.Name: the last folder with the id wins
             StringValue(folderList[CHOOSE i \in 1..Len(folderList) :
                            /\ folderList[i].ID = resource.FolderParentID
                            /\ \A j \in (i + 1)..Len(folderList) :
                                  folderList[j].ID # resource.FolderParentID].Name)
        ELSE StringNull]

\* resp.State of a data source Read starts empty
DataSourceRead(ctx0) ==
    LET c1 == GetResources(ctx0) IN
    IF Err(c1) # ""
    THEN Done(AddError(c1, "Error reading passwords", Err(c1)), <<>>)
    ELSE
    LET c2 == GetFolders(c1) IN
    IF Err(c2) # ""
    THEN Done(AddError(c2, "Error reading folders", Err(c2)), <<>>)
    ELSE
    LET listed == c1.calls[1].ret IN
    Done(c2, <<[Passwords |-> [i \in 1..Len(listed) |-> PasswordModelOf(listed[i], Ret(c2))]]>>)

-----------------------------------------------------------------------------
(* Inputs *)

\* the number of the remote call that fails, for a handler that issues at
\* most n remote calls; 0 lets all of them succeed
Faults(n) == 0..n

NoPlan == [none |-> TRUE]

\* no operation is in progress and no response is pending
IdleRecord ==
    [op |-> "Idle", plan |-> NoPlan, prior |-> <<>>, calls |-> <<>>,
     diags |-> <<>>, state |-> <<>>]

FolderPlans ==
    {[ID |-> StringUnknown, Name |-> StringValue(n), Personal |-> FALSE, FolderParent |-> p] :
        n \in {"", "a", "b"},
        p \in {StringNull, StringValue("a"), StringValue("b")}}

\* a valid plan for an entry at the root, shared with nobody
PlanRoot ==
    [ID |-> StringUnknown, Name |-> StringValue("n1"), Description |-> StringNull,
     Username |-> StringValue("u1"), URI |-> StringValue("https://h"),
     Password |-> StringValue("p1"), FolderParent |-> StringNull,
     ShareGroup |-> StringNull]

\* a valid plan for an entry in folder "a", shared with group "g"
PlanInFolder ==
    [PlanRoot EXCEPT !.FolderParent = StringValue("a"), !.ShareGroup = StringValue("g")]

\* the root plan, the root plan with one field changed, and the plan in a
\* folder with one required field made invalid
PasswordPlans ==
    {PlanRoot, PlanInFolder}
    \cup {[PlanRoot EXCEPT !.Name = StringValue(x)] : x \in {"", "n2"}}
    \cup {[PlanRoot EXCEPT !.Description = StringValue("d1")]}
    \cup {[PlanRoot EXCEPT !.Username = StringValue(x)] : x \in {"", "u2"}}
    \cup {[PlanRoot EXCEPT !.URI = StringValue(x)] : x \in {"", "ftp://h", "http://h", "https:/h"}}
    \cup {[PlanRoot EXCEPT !.Password = StringValue(x)] : x \in {"", "p2"}}
    \cup {[PlanRoot EXCEPT !.FolderParent = StringValue(x)] : x \in {"a", "b"}}
    \cup {[PlanRoot EXCEPT !.ShareGroup = StringValue(x)] : x \in {"g", "h"}}
    \cup {[PlanInFolder EXCEPT !.Name = StringValue("")],
          [PlanInFolder EXCEPT !.Username = StringValue("")],
          [PlanInFolder EXCEPT !.Password = StringValue("")],
          [PlanInFolder EXCEPT !.URI = StringValue("httpx://h")]}

\* an entry after another user of the remote has edited it
Edited(resource) ==
    [resource EXCEPT !.Name = "n9", !.Description = "d9", !.Username = "u9",
                     !.URI = "http://z", !.Secret = "p9"]

-----------------------------------------------------------------------------
(* Actions *)

\* the remote collections, the server's id counter and the record of the
\* operation, as the handler left them
Commit(op, plan, prior, r) ==
    /\ folders' = r.ctx.folders
    /\ resources' = r.ctx.resources
    /\ nextID' = r.ctx.nextID
    /\ last' = [op |-> op, plan |-> plan, prior |-> prior,
                calls |-> r.ctx.calls, diags |-> r.ctx.diags, state |-> r.state]
    /\ UNCHANGED <<provider, groups, managed, envSteps>>

FolderCreateOp ==
    /\ last.op = "Idle"
    /\ provider.ResourceData = Client
    /\ managed = "folder"
    /\ folderState = <<>>
    /\ nextID <= MaxID
    /\ \E plan \in FolderPlans, fault \in Faults(2) :
          LET r == FolderCreate(plan, NewCtx(fault)) IN
            /\ Commit("FolderCreate", plan, folderState, r)
            /\ folderState' = r.state
    /\ UNCHANGED passwordState

FolderReadOp ==
    /\ last.op = "Idle"
    /\ provider.ResourceData = Client
    /\ managed = "folder"
    /\ folderState # <<>>
    /\ \E fault \in Faults(2) :
          LET r == FolderRead(folderState[1], NewCtx(fault)) IN
            /\ Commit("FolderRead", NoPlan, folderState, r)
            /\ folderState' = r.state
    /\ UNCHANGED passwordState

FolderUpdateOp ==
    /\ last.op = "Idle"
    /\ provider.ResourceData = Client
    /\ managed = "folder"
    /\ folderState # <<>>
    /\ nextID <= MaxID
    /\ \E plan \in FolderPlans, fault \in Faults(4) :
          LET r == FolderUpdate(plan, folderState[1], NewCtx(fault)) IN
            /\ Commit("FolderUpdate", plan, folderState, r)
            /\ folderState' = r.state
    /\ UNCHANGED passwordState

FolderDeleteOp ==
    /\ last.op = "Idle"
    /\ provider.ResourceData = Client
    /\ managed = "folder"
    /\ folderState # <<>>
    /\ \E fault \in Faults(1) :
          LET r == FolderDelete(folderState[1], NewCtx(fault)) IN
            /\ Commit("FolderDelete", NoPlan, folderState, r)
            /\ folderState' = r.state
    /\ UNCHANGED passwordState

PasswordCreateOp ==
    /\ last.op = "Idle"
    /\ provider.ResourceData = Client
    /\ managed = "password"
    /\ passwordState = <<>>
    /\ nextID <= MaxID
    /\ \E plan \in PasswordPlans, fault \in Faults(4) :
          LET r == PasswordCreate(plan, NewCtx(fault)) IN
            /\ Commit("PasswordCreate", plan, passwordState, r)
            /\ passwordState' = r.state
    /\ UNCHANGED folderState

PasswordReadOp ==
    /\ last.op = "Idle"
    /\ provider.ResourceData = Client
    /\ managed = "password"
    /\ passwordState # <<>>
    /\ \E fault \in Faults(2) :
          LET r == PasswordRead(passwordState[1], NewCtx(fault)) IN
            /\ Commit("PasswordRead", NoPlan, passwordState, r)
            /\ passwordState' = r.state
    /\ UNCHANGED folderState

PasswordUpdateOp ==
    /\ last.op = "Idle"
    /\ provider.ResourceData = Client
    /\ managed = "password"
    /\ passwordState # <<>>
    /\ nextID <= MaxID
    /\ \E plan \in PasswordPlans, fault \in Faults(6) :
          LET r == PasswordUpdate(plan, passwordState[1], NewCtx(fault)) IN
            /\ Commit("PasswordUpdate", plan, passwordState, r)
            /\ passwordState' = r.state
    /\ UNCHANGED folderState

PasswordDeleteOp ==
    /\ last.op = "Idle"
    /\ provider.ResourceData = Client
    /\ managed = "password"
    /\ passwordState # <<>>
    /\ \E fault \in Faults(1) :
          LET r == PasswordDelete(passwordState[1], NewCtx(fault)) IN
            /\ Commit("PasswordDelete", NoPlan, passwordState, r)
            /\ passwordState' = r.state
    /\ UNCHANGED folderState

\* the listing is recomputed by every Read and kept in the record of the operation
DataSourceReadOp ==
    /\ last.op = "Idle"
    /\ provider.DataSourceData = Client
    /\ \E fault \in Faults(2) :
          LET r == DataSourceRead(NewCtx(fault)) IN
            Commit("DataSourceRead", NoPlan, <<>>, r)
    /\ UNCHANGED <<folderState, passwordState>>

\* the host takes the response of the operation (its diagnostics and its
\* state) before it invokes the next handler
HostTakesResponse ==
    /\ last.op # "Idle"
    /\ last' = IdleRecord
    /\ UNCHANGED <<provider, folders, resources, groups, nextID, managed,
                   folderState, passwordState, envSteps>>

\* another user of the remote changes it between two operations

EnvDeleteFolder ==
    /\ last.op = "Idle"
    /\ envSteps < MaxEnvSteps
    /\ \E i \in 1..Len(folders) : folders' = RemoveAt(folders, i)
    /\ envSteps' = envSteps + 1
    /\ UNCHANGED <<last, provider, resources, groups, nextID, managed, folderState, passwordState>>

\* another user creates a folder; folder names are not unique on the remote
EnvCreateFolder ==
    /\ last.op = "Idle"
    /\ envSteps < MaxEnvSteps
    /\ nextID <= MaxID
    /\ \E name \in {"a", "b"} :
          folders' = Append(folders, [ID |-> ToString(nextID), Name |-> name,
                                      FolderParentID |-> "", Personal |-> FALSE])
    /\ nextID' = nextID + 1
    /\ envSteps' = envSteps + 1
    /\ UNCHANGED <<last, provider, resources, groups, managed, folderState, passwordState>>

EnvDeleteResource ==
    /\ last.op = "Idle"
    /\ envSteps < MaxEnvSteps
    /\ \E i \in 1..Len(resources) : resources' = RemoveAt(resources, i)
    /\ envSteps' = envSteps + 1
    /\ UNCHANGED <<last, provider, folders, groups, nextID, managed, folderState, passwordState>>

EnvEditResource ==
    /\ last.op = "Idle"
    /\ envSteps < MaxEnvSteps
    /\ \E i \in 1..Len(resources) :
          /\ resources[i] # Edited(resources[i])
          /\ resources' = [resources EXCEPT ![i] = Edited(resources[i])]
    /\ envSteps' = envSteps + 1
    /\ UNCHANGED <<last, provider, folders, groups, nextID, managed, folderState, passwordState>>

EnvMoveResource ==
    /\ last.op = "Idle"
    /\ envSteps < MaxEnvSteps
    /\ \E i \in 1..Len(resources),
          target \in {""} \cup {folders[j].ID : j \in 1..Len(folders)} :
          /\ resources[i].FolderParentID # target
          /\ resources' = [resources EXCEPT ![i].FolderParentID = target]
    /\ envSteps' = envSteps + 1
    /\ UNCHANGED <<last, provider, folders, groups, nextID, managed, folderState, passwordState>>

-----------------------------------------------------------------------------
(* Specifications *)

InitRemote ==
    /\ folders = <<[ID |-> "1", Name |-> "a", FolderParentID |-> "", Personal |-> FALSE]>>
    /\ resources = <<>>
    /\ groups = <<[ID |-> "g1", Name |-> "g"], [ID |-> "g2", Name |-> "g"],
                  [ID |-> "g3", Name |-> "k"]>>
    /\ nextID = 2
    /\ folderState = <<>>
    /\ passwordState = <<>>
    /\ managed \in {"folder", "password"}
    /\ envSteps = 0
    /\ last = IdleRecord

\* the resources and the data source, under a provider whose Configure succeeded
Init ==
    /\ provider = ProviderReady
    /\ InitRemote

Next ==
    \/ FolderCreateOp
    \/ FolderReadOp
    \/ FolderUpdateOp
    \/ FolderDeleteOp
    \/ PasswordCreateOp
    \/ PasswordReadOp
    \/ PasswordUpdateOp
    \/ PasswordDeleteOp
    \/ DataSourceReadOp
    \/ HostTakesResponse
    \/ EnvDeleteFolder
    \/ EnvCreateFolder
    \/ EnvDeleteResource
    \/ EnvEditResource
    \/ EnvMoveResource

Spec == Init /\ [][Next]_vars

\* the provider bootstrap: a new provider, configured once
InitProvider ==
    /\ provider = ProviderNew
    /\ InitRemote

NextProvider == ConfigureOp

SpecProvider == InitProvider /\ [][NextProvider]_vars

-----------------------------------------------------------------------------
(* Properties of PassboltProvider.Configure, checked under SpecProvider *)

\* the value of a field once the explicit value is laid over the environment's
Overlaid(f) ==
    IF provider.config[f].st = "null"
    THEN provider.env[EnvName(f)]
    ELSE provider.config[f].v

EmptyAfterFallback == {f \in ConfigFields : Overlaid(f) = ""}

AllKnown == \A f \in ConfigFields : provider.config[f].st # "unknown"

ErrorsAt(f) == {i \in 1..Len(provider.diags) : provider.diags[i].path = f}

\* C1: when a field is empty after the explicit value is laid over its
\* environment fallback, Configure reports one attribute error for each empty
\* field and none for a non-empty one, constructs no client, does not log in,
\* and hands no client to resources or data sources
C1_MissingFieldsRejected ==
    (provider.phase = "configured" /\ AllKnown /\ EmptyAfterFallback # {}) =>
        /\ \A f \in ConfigFields :
              Cardinality(ErrorsAt(f)) = (IF f \in EmptyAfterFallback THEN 1 ELSE 0)
        /\ Len(provider.diags) = Cardinality(EmptyAfterFallback)
        /\ provider.calls = <<>>
        /\ provider.DataSourceData = NoClient
        /\ provider.ResourceData = NoClient

\* base_url comes from the environment, private_key is explicitly empty over a
\* set environment variable, passphrase is missing from both: two errors
C1_Witness ==
    /\ provider.phase = "configured"
    /\ provider.config["base_url"] = StringNull
    /\ provider.env["PASSBOLT_BASE_URL"] = "e"
    /\ provider.config["private_key"] = StringValue("")
    /\ provider.env["PASSBOLT_PRIVATE_KEY"] = "e"
    /\ provider.config["passphrase"] = StringNull
    /\ provider.env["PASSBOLT_PASSPHRASE"] = ""
    /\ Len(provider.diags) = 2
    /\ provider.ResourceData = NoClient

-----------------------------------------------------------------------------
(* Properties of the resources, checked under Spec *)

Calls(fns) == {i \in 1..Len(last.calls) : last.calls[i].fn \in fns}

CreateCalls == Calls({"CreateFolder", "CreateResource"})

DeleteCalls == Calls({"DeleteFolder", "DeleteResource"})

\* the tracked state of the resource the last operation was about
Tracked == IF managed = "folder" THEN folderState ELSE passwordState

\* a uri that starts with http:// or with https://
IsHttpURL(u) ==
    \/ (Len(u) >= 7 /\ SubSeq(u, 1, 7) = "http://")
    \/ (Len(u) >= 8 /\ SubSeq(u, 1, 8) = "https://")

InvalidCreate ==
    \/ /\ last.op = "FolderCreate"
       /\ ValueString(last.plan.Name) = ""
    \/ /\ last.op = "PasswordCreate"
       /\ \/ ValueString(last.plan.Name) = ""
          \/ ValueString(last.plan.Username) = ""
          \/ ValueString(last.plan.URI) = ""
          \/ ValueString(last.plan.Password) = ""
          \/ ~IsHttpURL(ValueString(last.plan.URI))

\* C2: a Create whose plan fails validation reports a validation error, issues
\* no remote call at all and records no tracked state
C2_ValidationBeforeRemoteCalls ==
    InvalidCreate =>
        /\ Len(last.diags) = 1
        /\ last.diags[1].summary = "Validation Error"
        /\ last.calls = <<>>
        /\ last.state = <<>>
        /\ Tracked = <<>>

\* a secret-entry Create with a parent folder, a share group and a malformed uri
C2_Witness ==
    /\ last.op = "PasswordCreate"
    /\ last.plan = [PlanInFolder EXCEPT !.URI = StringValue("httpx://h")]
    /\ last.calls = <<>>
    /\ last.diags # <<>>
    /\ passwordState = <<>>

UpdateOps == {"FolderUpdate", "PasswordUpdate"}

\* Update has read the live object
LiveRead == last.op \in UpdateOps /\ last.calls # <<>> /\ last.calls[1].err = ""

Live == last.calls[1].ret[1]

\* Update found a compared field different
FoundDifferent ==
    /\ LiveRead
    /\ IF last.op = "FolderUpdate"
       THEN \/ ValueString(last.plan.Name) # Live.Name
            \/ ValueString(last.plan.FolderParent) # ValueString(last.prior[1].FolderParent)
       ELSE \/ ValueString(last.plan.Name) # Live.Name
            \/ ValueString(last.plan.Description) # Live.Description
            \/ ValueString(last.plan.Username) # Live.Username
            \/ ValueString(last.plan.URI) # Live.URI
            \/ ValueString(last.plan.Password) # ValueString(last.prior[1].Password)
            \/ ValueString(last.plan.FolderParent) # ValueString(last.prior[1].FolderParent)

\* C3: when Update finds a compared field different it issues a remote delete
\* against the old id, issues a remote create only after that delete has
\* succeeded, and on success the tracked id is the id that create returned
C3_DifferenceRecreates ==
    FoundDifferent =>
        /\ Len(last.calls) >= 2
        /\ last.calls[2].fn = (IF last.op = "FolderUpdate" THEN "DeleteFolder" ELSE "DeleteResource")
        /\ last.calls[2].args.id = ValueString(last.prior[1].ID)
        /\ DeleteCalls = {2}
        /\ \A i \in CreateCalls : i > 2 /\ last.calls[2].err = ""
        /\ last.diags = <<>> =>
              /\ Cardinality(CreateCalls) = 1
              /\ \A i \in CreateCalls :
                    /\ last.calls[i].err = ""
                    /\ last.state[1].ID = StringValue(last.calls[i].ret[1].ID)
              /\ last.state[1].ID # last.prior[1].ID
              /\ Tracked = last.state

\* the secret's uri is updated: delete of the old id, create of a new id
C3_Witness ==
    /\ last.op = "PasswordUpdate"
    /\ last.prior[1].URI = StringValue("https://h")
    /\ last.plan = [PlanRoot EXCEPT !.URI = StringValue("http://h")]
    /\ last.diags = <<>>
    /\ Len(last.calls) = 3
    /\ last.calls[2].fn = "DeleteResource"
    /\ last.calls[3].fn = "CreateResource"
    /\ passwordState[1].ID # last.prior[1].ID

\* Update's delete of the old id succeeded and the create after it failed
MidRecreationFailure ==
    /\ last.op \in UpdateOps
    /\ \E i \in DeleteCalls, j \in CreateCalls :
          i < j /\ last.calls[i].err = "" /\ last.calls[j].err # ""

\* C4: when Update's delete succeeds and the create after it fails, Update
\* reports an error, attempts no second create and nothing after the failed
\* one, the old object stays absent and the tracked state keeps its id
C4_NoRollbackNoRetry ==
    MidRecreationFailure =>
        /\ last.diags # <<>>
        /\ Cardinality(CreateCalls) = 1
        /\ \A j \in CreateCalls : j = Len(last.calls)
        /\ IndexByID(IF last.op = "FolderUpdate" THEN folders ELSE resources,
                     ValueString(last.prior[1].ID)) = 0
        /\ last.state = last.prior
        /\ Tracked = last.prior

C4_Witness ==
    /\ last.op = "FolderUpdate"
    /\ MidRecreationFailure
    /\ last.diags # <<>>
    /\ folderState = last.prior
    /\ IndexByID(folders, ValueString(folderState[1].ID)) = 0

\* the handler listed the folders and none has the planned parent-folder name
UnresolvedParent ==
    \E i \in Calls({"GetFolders"}) :
        /\ last.calls[i].err = ""
        /\ \A k \in 1..Len(last.calls[i].ret) :
              last.calls[i].ret[k].Name # ValueString(last.plan.FolderParent)

\* C5: a Create whose parent-folder name matches no folder of the fresh listing
\* reports an error, issues no remote create and records no tracked state
C5_CreateRejectsUnresolvedParent ==
    (last.op \in {"FolderCreate", "PasswordCreate"} /\ UnresolvedParent) =>
        /\ last.diags # <<>>
        /\ CreateCalls = {}
        /\ last.state = <<>>
        /\ Tracked = <<>>

C5_Witness ==
    /\ last.op = "PasswordCreate"
    /\ last.plan.FolderParent = StringValue("b")
    /\ Len(last.calls) = 1
    /\ last.calls[1].fn = "GetFolders"
    /\ last.calls[1].err = ""
    /\ last.calls[1].ret # <<>>
    /\ last.diags # <<>>
    /\ passwordState = <<>>

\* C6: the recreation step of Update rejects a parent-folder name that matches
\* no folder of the fresh listing: no remote create is issued and an error is
\* reported
C6_UpdateRejectsUnresolvedParent ==
    (last.op \in UpdateOps /\ UnresolvedParent) =>
        /\ CreateCalls = {}
        /\ last.diags # <<>>

\* C7: when the get of the tracked secret entry answers not-found, Read removes
\* the tracked state and reports no error; on any other failure of the get it
\* reports an error and keeps the tracked state
C7_ReadRemovesMissingEntry ==
    (last.op = "PasswordRead" /\ last.calls[1].err # "") =>
        IF last.calls[1].err = "notfound"
        THEN /\ last.diags = <<>>
             /\ last.state = <<>>
             /\ passwordState = <<>>
        ELSE /\ last.diags # <<>>
             /\ last.state = last.prior
             /\ passwordState = last.prior

\* the entry was deleted out of band and the Read removed the tracked state
C7_Witness ==
    /\ last.op = "PasswordRead"
    /\ last.calls[1].fn = "GetResource"
    /\ last.calls[1].args.id = ValueString(last.prior[1].ID)
    /\ last.calls[1].err = "notfound"
    /\ passwordState = <<>>
    /\ last.diags = <<>>

\* C8: a folder Read whose get answers that the folder is missing removes the
\* tracked state and reports no error
C8_FolderReadRemovesMissing ==
    (last.op = "FolderRead" /\ last.calls[1].err = "notfound") =>
        /\ last.diags = <<>>
        /\ folderState = <<>>

\* C9: after a successful Read of an existing entry the tracked password is
\* the one tracked before the Read, and name, description, username and uri
\* are the live values
C9_ReadKeepsPassword ==
    (last.op = "PasswordRead" /\ last.diags = <<>> /\ last.state # <<>>) =>
        /\ passwordState = last.state
        /\ passwordState[1].Password = last.prior[1].Password
        /\ passwordState[1].Name = StringValue(last.calls[1].ret[1].Name)
        /\ passwordState[1].Description = StringValue(last.calls[1].ret[1].Description)
        /\ passwordState[1].Username = StringValue(last.calls[1].ret[1].Username)
        /\ passwordState[1].URI = StringValue(last.calls[1].ret[1].URI)

\* the entry was edited out of band: its secret and its name differ from the state
C9_Witness ==
    /\ last.op = "PasswordRead"
    /\ last.diags = <<>>
    /\ passwordState # <<>>
    /\ last.calls[1].ret[1].Secret # ValueString(last.prior[1].Password)
    /\ last.calls[1].ret[1].Name # ValueString(last.prior[1].Name)
    /\ passwordState[1].Name # last.prior[1].Name
    /\ passwordState[1].Password = last.prior[1].Password

\* the not-found answer to the get of secret-entry Read is the signal to remove
\* the state; every other failing call is a failure to surface
SurfacedFailures ==
    {i \in 1..Len(last.calls) :
        /\ last.calls[i].err # ""
        /\ ~(last.op = "PasswordRead" /\ i = 1 /\ last.calls[i].err = "notfound")}

\* C10: every failing remote call makes the operation end with an error
\* reported to the caller, and nothing is called after a failure
C10_EveryFailureReported ==
    \A i \in SurfacedFailures :
        /\ last.diags # <<>>
        /\ i = Len(last.calls)

-----------------------------------------------------------------------------
(* Group sharing and name resolution *)

\* first element of a non-empty set of positions
First(S) == CHOOSE k \in S : \A m \in S : k <= m

\* positions of the entities of a listing that have exactly the name
Matches(list, name) == {k \in 1..Len(list) : list[k].Name = name}

\* Create listed the groups
GroupsListed == {i \in Calls({"GetGroups"}) : last.calls[i].err = ""}

CreatedID == last.calls[First(CreateCalls)].ret[1].ID

\* C11: on a secret-entry Create whose group listing succeeds, a share-group
\* name that matches no group leads to no share call and no error, and the
\* entry is tracked with its new id; a name that matches leads to exactly one
\* share call, after the create, granting read permission to a group of that
\* name on the new entry
C11_UnresolvedGroupSkipped ==
    (last.op = "PasswordCreate" /\ GroupsListed # {}) =>
        LET i == First(GroupsListed)
            list == last.calls[i].ret
            matches == Matches(list, ValueString(last.plan.ShareGroup))
            shareCalls == Calls({"ShareResource"})
        IN  /\ Cardinality(CreateCalls) = 1
            /\ First(CreateCalls) < i
            /\ last.calls[First(CreateCalls)].err = ""
            /\ IF matches = {}
               THEN /\ shareCalls = {}
                    /\ last.diags = <<>>
                    /\ passwordState = last.state
                    /\ passwordState # <<>>
                    /\ passwordState[1].ID = StringValue(CreatedID)
                    /\ IndexByID(resources, CreatedID) # 0
               ELSE /\ shareCalls = {i + 1}
                    /\ last.calls[i + 1].args.resourceID = CreatedID
                    /\ Len(last.calls[i + 1].args.shares) = 1
                    /\ last.calls[i + 1].args.shares[1].Type = 7
                    /\ last.calls[i + 1].args.shares[1].ARO = "Group"
                    /\ last.calls[i + 1].args.shares[1].AROID
                          \in {list[k].ID : k \in matches}

\* the plan names group "h", the listing has groups and none is named "h"
C11_Witness ==
    /\ last.op = "PasswordCreate"
    /\ last.plan.ShareGroup = StringValue("h")
    /\ GroupsListed # {}
    /\ last.calls[First(GroupsListed)].ret # <<>>
    /\ Calls({"ShareResource"}) = {}
    /\ last.diags = <<>>
    /\ passwordState # <<>>

\* Create resolved the parent-folder name: its first call listed the folders
FoldersListedByCreate ==
    /\ last.op \in {"FolderCreate", "PasswordCreate"}
    /\ last.calls # <<>>
    /\ last.calls[1].fn = "GetFolders"
    /\ last.calls[1].err = ""

\* the parent id the create call carried
ParentIDCreated(call) ==
    IF call.fn = "CreateFolder" THEN call.args.FolderParentID ELSE call.args.folderParentID

\* C12: resolving a name against a listing reports not-found exactly when no
\* listed entity has that very name, and otherwise yields the id of the first
\* entity of the listing that has it; it issues one listing call and nothing else
C12_FirstMatchResolution ==
    /\ FoldersListedByCreate =>
          LET list == last.calls[1].ret
              matches == Matches(list, ValueString(last.plan.FolderParent))
          IN  /\ Calls({"GetFolders"}) = {1}
              /\ IF matches = {}
                 THEN /\ Len(last.calls) = 1
                      /\ Len(last.diags) = 1
                      /\ last.diags[1].detail \in {"Parent folder not found", "Folder not found"}
                 ELSE /\ Len(last.calls) >= 2
                      /\ CreateCalls = {2}
                      /\ ParentIDCreated(last.calls[2]) = list[First(matches)].ID
                      /\ \A d \in 1..Len(last.diags) : last.diags[d].summary # "Validation Error"
    /\ (last.op = "PasswordCreate" /\ GroupsListed # {}) =>
          LET i == First(GroupsListed)
              list == last.calls[i].ret
              matches == Matches(list, ValueString(last.plan.ShareGroup))
          IN  /\ Calls({"GetGroups"}) = {i}
              /\ IF matches = {}
                 THEN Len(last.calls) = i
                 ELSE /\ Len(last.calls) = i + 1
                      /\ last.calls[i + 1].fn = "ShareResource"
                      /\ last.calls[i + 1].args.shares[1].AROID = list[First(matches)].ID

\* two listed folders have the planned parent name, and so have two listed
\* groups the planned group name: the first of each is taken
C12_Witness ==
    /\ FoldersListedByCreate
    /\ last.op = "PasswordCreate"
    /\ Cardinality(Matches(last.calls[1].ret, ValueString(last.plan.FolderParent))) = 2
    /\ last.calls[2].err = ""
    /\ last.calls[2].args.folderParentID = last.calls[1].ret[1].ID
    /\ GroupsListed # {}
    /\ Cardinality(Matches(last.calls[3].ret, ValueString(last.plan.ShareGroup))) = 2
    /\ Len(last.calls) = 4
    /\ last.calls[4].args.shares[1].AROID = last.calls[3].ret[1].ID

-----------------------------------------------------------------------------
(* Update without a difference *)

\* C13: when no compared field differs, Update issues no remote call after
\* its read of the live object (no delete, create, listing or share) and the
\* tracked id after it is the tracked id before it, also when the share-group
\* name of the plan differs from the recorded one
C13_NoDifferenceNoRecreation ==
    (LiveRead /\ ~FoundDifferent) =>
        /\ Len(last.calls) = 1
        /\ last.diags = <<>>
        /\ Tracked = last.state
        /\ Tracked # <<>>
        /\ Tracked[1].ID = last.prior[1].ID
        /\ IndexByID(IF last.op = "FolderUpdate" THEN folders ELSE resources,
                     ValueString(Tracked[1].ID)) # 0

\* only the share-group name differs between the plan and the state
C13_Witness ==
    /\ last.op = "PasswordUpdate"
    /\ LiveRead
    /\ ~FoundDifferent
    /\ ValueString(last.plan.ShareGroup) = "g"
    /\ ValueString(last.prior[1].ShareGroup) = ""
    /\ Len(last.calls) = 1
    /\ passwordState[1].ID = last.prior[1].ID
    /\ passwordState[1].ShareGroup = StringValue("g")

-----------------------------------------------------------------------------
(* Listing data source *)

ListingCalls == {"GetResources", "GetFolders"}

\* the folder_parent of the listing output for a remote entry
ListedParent(resource) ==
    IF resource.FolderParentID # ""
       /\ \E i \in 1..Len(folders) : folders[i].ID = resource.FolderParentID
    THEN StringValue(folders[CHOOSE i \in 1..Len(folders) :
                                folders[i].ID = resource.FolderParentID].Name)
    ELSE StringNull

\* C14: when both listings of the data source Read succeed, the output has
\* one element per remote entry, in listing order, with the entry's id, name,
\* description, username and uri; folder_parent is the name of the folder
\* with the entry's parent id, and unset when the entry has no parent or the
\* parent is not listed; the Read issues listing calls only
C14_ListingOutput ==
    (last.op = "DataSourceRead") =>
        /\ \A i \in 1..Len(last.calls) : last.calls[i].fn \in ListingCalls
        /\ (last.diags = <<>>) =>
              /\ Len(last.calls) = 2
              /\ Len(last.state) = 1
              /\ Len(last.state[1].Passwords) = Len(resources)
              /\ \A i \in 1..Len(resources) :
                    LET out == last.state[1].Passwords[i]
                        r == resources[i] IN
                      /\ out.ID = StringValue(r.ID)
                      /\ out.Name = StringValue(r.Name)
                      /\ out.Description = StringValue(r.Description)
                      /\ out.Username = StringValue(r.Username)
                      /\ out.URI = StringValue(r.URI)
                      /\ out.FolderParent = ListedParent(r)

\* the listing of an entry whose parent folder was deleted from the remote
C14_Witness ==
    /\ last.op = "DataSourceRead"
    /\ last.diags = <<>>
    /\ \E i \in 1..Len(resources) :
          /\ resources[i].FolderParentID # ""
          /\ IndexByID(folders, resources[i].FolderParentID) = 0
          /\ IsNull(last.state[1].Passwords[i].FolderParent)

-----------------------------------------------------------------------------
(* Partial failure, validation on Update, parent folder on Read *)

\* the remote creates of the last operation that succeeded
SucceededCreates == {i \in Calls({"CreateResource"}) : last.calls[i].err = ""}

\* C15: a secret-entry Create that ends with an error leaves no entry it
\* created on the remote, and the id of an entry it created is recorded in the
\* tracked state, also when the group listing or the share call fails after
\* the create
C15_CreateAllOrNothing ==
    (last.op = "PasswordCreate") =>
        \A i \in SucceededCreates :
            /\ (last.diags # <<>>) =>
                  IndexByID(resources, last.calls[i].ret[1].ID) = 0
            /\ passwordState # <<>>
            /\ passwordState[1].ID = StringValue(last.calls[i].ret[1].ID)

\* C16: every remote create of a secret entry, by Create or by the recreation
\* of Update, carries a non-empty name, username and password and a uri that
\* starts with http:// or https://
C16_EveryCreateValidated ==
    (last.op \in {"PasswordCreate", "PasswordUpdate"}) =>
        \A i \in Calls({"CreateResource"}) :
            /\ last.calls[i].args.name # ""
            /\ last.calls[i].args.username # ""
            /\ last.calls[i].args.password # ""
            /\ IsHttpURL(last.calls[i].args.uri)

\* C17: after a secret-entry Read none of whose remote calls failed and that
\* keeps the entry tracked, the tracked parent-folder name is null when the live entry
\* has no parent folder and is the name of the folder with the live entry's
\* parent id when there is one
C17_ReadRefreshesParent ==
    (/\ last.op = "PasswordRead"
     /\ last.diags = <<>>
     /\ last.state # <<>>
     /\ \A i \in 1..Len(last.calls) : last.calls[i].err = "") =>
        LET live == last.calls[1].ret[1] IN
          IF live.FolderParentID = ""
          THEN passwordState[1].FolderParent = StringNull
          ELSE FolderNameByID(folders, live.FolderParentID) # <<>> =>
                  passwordState[1].FolderParent =
                      StringValue(FolderNameByID(folders, live.FolderParentID)[1])

====
